---- MODULE Spec2Model ----
(***************************************************************************)
(* Segment extraction and merge engine of the SponsorSpotlight dashboard:  *)
(* SegmentFilter.setupSegmentFiltering / findRawSegments /                 *)
(* mergeAndFilterSegments / renderSegmentResults, and the inline copies in *)
(* Dashboard.setupSegmentFiltering.                                        *)
(*                                                                         *)
(* JavaScript values are modelled as follows.                              *)
(*  - a string is a sequence of one-character strings;                     *)
(*  - a value that may be undefined/null is a sequence of length 0 or 1:   *)
(*    <<>> is undefined/null, <<v>> is the value v;                        *)
(*  - a value read from the page or from the metadata and passed to        *)
(*    Number() is a record [kind, val]: kind "number" carries val, the     *)
(*    kinds "undefined" and "text" convert to NaN;                         *)
(*  - numbers are integers; a quotient x / fps is never formed, it is      *)
(*    only compared with an integer, which is done exactly by              *)
(*    cross-multiplication (DivLeq, DivGeq).                               *)
(***************************************************************************)
EXTENDS Integers, Sequences, FiniteSets, TLC

\* ------------------------------------------------------------------ bounds
MaxLen == 3
MaxSegs == 3
MaxResults == 52

\* -------------------------------------------------------- program constants
DefaultFps == 25
mergeGapSecConst == 1
minDurationSecConst == 1
DisplayCap == 50

\* ------------------------------------------------------------ input domains
Logos == { <<"A", "b">>, <<"b">> }
CovValues == {0, 1}
PromValues == {0, 1}
FpsValues == {-1, 0, 1, 2}
ThresholdValues == {0, 1}
GapValues == {0, 1}
DurationValues == {0, 1, 2}
MergeFps == {-1, 1, 2}
MergeFrames == 0 .. 2
ExtractLogo == <<"b">>
ScenarioCoverage == << 5, 5, 5, 0, 0, 5, 5, 5, 5, 5 >>
ScenarioValues == {0, 5}
LongWidths == {1, 2}
Queries == { <<>>, <<" ", "a">>, <<"B">>, <<"x">> }
RepeatQueries == { <<>>, <<" ", "a">> }
RepeatFps == {1}
ThresholdInputs == { [kind |-> "text", val |-> 0], [kind |-> "number", val |-> 1] }

RECURSIVE SeqsUpTo(_, _)
SeqsUpTo(S, n) ==
  IF n = 0 THEN { <<>> }
  ELSE LET shorter == SeqsUpTo(S, n - 1)
       IN  shorter \cup { Append(s, x) : s \in { t \in shorter : Len(t) = n - 1 }, x \in S }

Range(s) == { s[i] : i \in DOMAIN s }

Maps(D, V) == UNION { [S -> V] : S \in SUBSET D }

NumberInputs(vals) ==
  { [kind |-> "undefined", val |-> 0], [kind |-> "text", val |-> 0] }
    \cup { [kind |-> "number", val |-> v] : v \in vals }

\* ---------------------------------------------------------------- JS values
\* Number(x) || d : NaN and 0 are falsy, every other number is kept.
NumberOr(x, d) == IF x.kind = "number" /\ x.val # 0 THEN x.val ELSE d

\* arr[f] for a 0-based index: undefined beyond the end of the array.
JsIndex(arr, f) == IF f >= 0 /\ f < Len(arr) THEN << arr[f + 1] >> ELSE <<>>

\* v || 0 for a number or undefined.
OrZero(v) == IF v = <<>> THEN 0 ELSE v[1]

\* map[key] || [] for a map of arrays.
SeriesOf(map, key) == IF key \in DOMAIN map THEN map[key] ELSE <<>>

\* new Set(map[key] || []) for a map of frame-number lists.
PresentSetOf(map, key) == IF key \in DOMAIN map THEN map[key] ELSE {}

Max(a, b) == IF a >= b THEN a ELSE b

\* x / fps <= bound, as IEEE division decides it (x / 0 is +-Infinity or NaN).
DivLeq(x, fps, bound) ==
  IF fps > 0 THEN x <= bound * fps
  ELSE IF fps < 0 THEN x >= bound * fps
  ELSE x < 0

\* x / fps >= bound.
DivGeq(x, fps, bound) ==
  IF fps > 0 THEN x >= bound * fps
  ELSE IF fps < 0 THEN x <= bound * fps
  ELSE x > 0

\* ------------------------------------------------------------------ strings
toLowerCaseChar(c) == IF c = "A" THEN "a" ELSE IF c = "B" THEN "b" ELSE c

toLowerCase(s) == [ i \in DOMAIN s |-> toLowerCaseChar(s[i]) ]

RECURSIVE trim(_)
trim(s) ==
  IF s = <<>> THEN s
  ELSE IF Head(s) = " " THEN trim(Tail(s))
  ELSE IF s[Len(s)] = " " THEN trim(SubSeq(s, 1, Len(s) - 1))
  ELSE s

includes(s, q) ==
  \E i \in 0 .. (Len(s) - Len(q)) : SubSeq(s, i + 1, i + Len(q)) = q

\* Mutant: the logo's name is not lower-cased, l.includes(logoQ).
matchesQuery_caseSensitive(l, logoQ) == logoQ = <<>> \/ includes(l, logoQ)

\* logos filter: !logoQ || l.toLowerCase().includes(logoQ)
matchesQuery(l, logoQ) == logoQ = <<>> \/ includes(toLowerCase(l), logoQ)

filterLogos(keys, logoQ) == SelectSeq(keys, LAMBDA l : matchesQuery(l, logoQ))

\* ------------------------------------------------------------ segment records
Seg(logo, start, end) == [logo |-> logo, start |-> start, end |-> end]

\* ------------------------------------------------------ findRawSegments
\* Mutant: the empty presence list is not treated as "present everywhere".
isPresent_noEmptyCase(presentSet, f) == (f + 1) \in presentSet

\* Mutant: the presence list is read as 0-based, presentSet.has(f).
isPresent_zeroBased(presentSet, f) == IF presentSet = {} THEN TRUE ELSE f \in presentSet

\* presentSet.size === 0 ? true : presentSet.has(f + 1)
isPresent(presentSet, f) == IF presentSet = {} THEN TRUE ELSE (f + 1) \in presentSet

\* Mutant: strict comparison, (covSeries[f] || 0) > minCov.
covOk_strict(covSeries, f, minCov) == OrZero(JsIndex(covSeries, f)) > minCov

\* (covSeries[f] || 0) >= minCov
covOk(covSeries, f, minCov) == OrZero(JsIndex(covSeries, f)) >= minCov

\* Mutant: no default for a missing entry, promSeries[f] >= minProm
\* (undefined >= x is false).
promOk_noDefault(promSeries, f, minProm) ==
  JsIndex(promSeries, f) # <<>> /\ JsIndex(promSeries, f)[1] >= minProm

\* (promSeries[f] || 0) >= minProm
promOk(promSeries, f, minProm) == OrZero(JsIndex(promSeries, f)) >= minProm

\* Mutant: start and end written to the wrong fields.
flush_swapped(st, logo, endFrame) ==
  IF st.start # <<>>
  THEN [start |-> <<>>, rawSegments |-> Append(st.rawSegments, Seg(logo, endFrame, st.start[1]))]
  ELSE st

\* Mutant: the start !== null guard is dropped (a null start is pushed as -1).
flush_noGuard(st, logo, endFrame) ==
  [start |-> <<>>,
   rawSegments |-> Append(st.rawSegments,
                          Seg(logo, IF st.start = <<>> THEN -1 ELSE st.start[1], endFrame))]

\* Mutant: start = null is missing after the push.
flush_keepStart(st, logo, endFrame) ==
  IF st.start # <<>>
  THEN [st EXCEPT !.rawSegments = Append(@, Seg(logo, st.start[1], endFrame))]
  ELSE st

\* The closure flush(endFrame); st is the pair of the variables it captures:
\* st.start (<<>> is null) and st.rawSegments.
flush(st, logo, endFrame) ==
  IF st.start # <<>>
  THEN [start |-> <<>>, rawSegments |-> Append(st.rawSegments, Seg(logo, st.start[1], endFrame))]
  ELSE st

\* Mutant: the run is closed at the failing frame, flush(f).
scanFrame_flushAtF(st, logo, covSeries, promSeries, presentSet, f, minCov, minProm) ==
  IF isPresent(presentSet, f) /\ covOk(covSeries, f, minCov) /\ promOk(promSeries, f, minProm)
  THEN IF st.start = <<>> THEN [st EXCEPT !.start = << f >>] ELSE st
  ELSE flush(st, logo, f)

\* One iteration of the for loop over f.
scanFrame(st, logo, covSeries, promSeries, presentSet, f, minCov, minProm) ==
  IF isPresent(presentSet, f) /\ covOk(covSeries, f, minCov) /\ promOk(promSeries, f, minProm)
  THEN IF st.start = <<>> THEN [st EXCEPT !.start = << f >>] ELSE st
  ELSE flush(st, logo, f - 1)

RECURSIVE scanFrames(_, _, _, _, _, _, _, _, _)
scanFrames(st, logo, covSeries, promSeries, presentSet, f, maxLen, minCov, minProm) ==
  IF f < maxLen
  THEN scanFrames(scanFrame(st, logo, covSeries, promSeries, presentSet, f, minCov, minProm),
                  logo, covSeries, promSeries, presentSet, f + 1, maxLen, minCov, minProm)
  ELSE st

\* The body of logos.forEach: appends the raw segments of one logo.
findRawSegmentsOfLogo(rawSegments, logo, covData, promData, presData, minCov, minProm) ==
  LET covSeries == SeriesOf(covData, logo)
      promSeries == SeriesOf(promData, logo)
      presentSet == PresentSetOf(presData, logo)
      maxLen == Max(Len(covSeries), Len(promSeries))
      st0 == [start |-> <<>>, rawSegments |-> rawSegments]
      st1 == scanFrames(st0, logo, covSeries, promSeries, presentSet, 0, maxLen, minCov, minProm)
  IN  flush(st1, logo, maxLen - 1).rawSegments

\* Mutant: the loop over the logos stops before the last logo.
RECURSIVE forEachLogo_skipLast(_, _, _, _, _, _, _, _)
forEachLogo_skipLast(rawSegments, logos, i, covData, promData, presData, minCov, minProm) ==
  IF i >= Len(logos) /\ Len(logos) > 1 THEN rawSegments
  ELSE IF i > Len(logos) THEN rawSegments
  ELSE forEachLogo_skipLast(findRawSegmentsOfLogo(rawSegments, logos[i], covData, promData,
                                                  presData, minCov, minProm),
                            logos, i + 1, covData, promData, presData, minCov, minProm)

RECURSIVE forEachLogo(_, _, _, _, _, _, _, _)
forEachLogo(rawSegments, logos, i, covData, promData, presData, minCov, minProm) ==
  IF i > Len(logos) THEN rawSegments
  ELSE forEachLogo(findRawSegmentsOfLogo(rawSegments, logos[i], covData, promData, presData,
                                         minCov, minProm),
                   logos, i + 1, covData, promData, presData, minCov, minProm)

\* The list findRawSegments returned in the last run (part of the state below).
VARIABLE found

\* Mutant: const segments = [] is missing, the list of the previous run of the
\* handler is extended.
findRawSegments_accumulating(logos, covData, promData, presData, minCov, minProm) ==
  forEachLogo(found, logos, 1, covData, promData, presData, minCov, minProm)

\* presData is this.dashboard.timelineStats, which the method reads itself.
findRawSegments(logos, covData, promData, presData, minCov, minProm) ==
  forEachLogo(<<>>, logos, 1, covData, promData, presData, minCov, minProm)

\* ------------------------------------------------ mergeAndFilterSegments
\* rawSegments.sort((a,b) => a.start - b.start): a stable sort.
RECURSIVE insertByStart(_, _)
insertByStart(sorted, seg) ==
  IF sorted = <<>> THEN << seg >>
  ELSE IF sorted[Len(sorted)].start - seg.start <= 0 THEN Append(sorted, seg)
  ELSE Append(insertByStart(SubSeq(sorted, 1, Len(sorted) - 1), seg), sorted[Len(sorted)])

\* Mutant: the list is walked in the order it has, without the sort.
sortByStart_unsorted(segs) == segs

RECURSIVE sortByStart(_)
sortByStart(segs) ==
  IF segs = <<>> THEN <<>>
  ELSE insertByStart(sortByStart(SubSeq(segs, 1, Len(segs) - 1)), segs[Len(segs)])

\* Mutant: the same-logo test is dropped.
shouldMerge_anyLogo(last, seg, fps, mergeGapSec) ==
  DivLeq(Max(0, seg.start - (last.end + 1)), fps, mergeGapSec)

\* Mutant: the gap is not looked at, a segment of the same logo always merges.
shouldMerge_anyGap(last, seg, fps, mergeGapSec) == seg.logo = last.logo

\* Mutant: strict comparison, gapSec < mergeGapSec.
shouldMerge_strict(last, seg, fps, mergeGapSec) ==
  LET gapFrames == seg.start - (last.end + 1)
  IN  seg.logo = last.logo /\ ~DivGeq(Max(0, gapFrames), fps, mergeGapSec)

\* seg.logo === last.logo && gapSec <= mergeGapSec
shouldMerge(last, seg, fps, mergeGapSec) ==
  LET gapFrames == seg.start - (last.end + 1)
  IN  seg.logo = last.logo /\ DivLeq(Max(0, gapFrames), fps, mergeGapSec)

\* Mutant: merging grouped by logo: `last` is the latest entry of the
\* segment's own logo.
mergeStep_lastOfLogo(merged, seg, fps, mergeGapSec) ==
  LET own == { j \in 1 .. Len(merged) : merged[j].logo = seg.logo }
  IN  IF own = {} THEN Append(merged, seg)
      ELSE LET at == CHOOSE j \in own : \A k \in own : k <= j
               last == merged[at]
           IN  IF shouldMerge(last, seg, fps, mergeGapSec)
               THEN IF seg.end > last.end
                    THEN [merged EXCEPT ![at].end = seg.end]
                    ELSE merged
               ELSE Append(merged, seg)

\* Mutant: a segment within the gap is absorbed whatever its logo.
mergeStep_ignoreLogo(merged, seg, fps, mergeGapSec) ==
  IF Len(merged) = 0 THEN Append(merged, seg)
  ELSE LET last == merged[Len(merged)]
       IN  IF DivLeq(Max(0, seg.start - (last.end + 1)), fps, mergeGapSec)
           THEN IF seg.end > last.end
                THEN [merged EXCEPT ![Len(merged)].end = seg.end]
                ELSE merged
           ELSE Append(merged, seg)

\* Mutant: an absorbed segment does not extend the last entry.
mergeStep_noExtend(merged, seg, fps, mergeGapSec) ==
  IF Len(merged) = 0 THEN Append(merged, seg)
  ELSE IF shouldMerge(merged[Len(merged)], seg, fps, mergeGapSec)
       THEN merged
       ELSE Append(merged, seg)

\* The body of rawSegments.forEach in the merge walk.
mergeStep(merged, seg, fps, mergeGapSec) ==
  IF Len(merged) = 0 THEN Append(merged, seg)
  ELSE LET last == merged[Len(merged)]
       IN  IF shouldMerge(last, seg, fps, mergeGapSec)
           THEN IF seg.end > last.end
                THEN [merged EXCEPT ![Len(merged)].end = seg.end]
                ELSE merged
           ELSE Append(merged, seg)

RECURSIVE mergeWalk(_, _, _, _, _)
mergeWalk(merged, sorted, i, fps, mergeGapSec) ==
  IF i > Len(sorted) THEN merged
  ELSE mergeWalk(mergeStep(merged, sorted[i], fps, mergeGapSec), sorted, i + 1, fps, mergeGapSec)

\* Mutant: the walk compares each segment with the previous segment of the
\* sorted input instead of the last entry of `merged`.
RECURSIVE mergeWalk_prevInput(_, _, _, _, _)
mergeWalk_prevInput(merged, sorted, i, fps, mergeGapSec) ==
  IF i > Len(sorted) THEN merged
  ELSE LET seg == sorted[i]
           next == IF i = 1 \/ ~shouldMerge(sorted[i - 1], seg, fps, mergeGapSec)
                   THEN Append(merged, seg)
                   ELSE IF seg.end > merged[Len(merged)].end
                        THEN [merged EXCEPT ![Len(merged)].end = seg.end]
                        ELSE merged
       IN  mergeWalk_prevInput(next, sorted, i + 1, fps, mergeGapSec)

mergeSegments_prevInput(rawSegments, fps, mergeGapSec) ==
  mergeWalk_prevInput(<<>>, sortByStart(rawSegments), 1, fps, mergeGapSec)

\* The list `merged` at the end of the walk, before the duration filter.
mergeSegments(rawSegments, fps, mergeGapSec) ==
  mergeWalk(<<>>, sortByStart(rawSegments), 1, fps, mergeGapSec)

\* The walk again, on objects: an entry of `merged` is [ref, seg], where ref
\* is 0 for an object of its own with the fields seg, and i > 0 when the entry
\* is the very object at sorted[i]. pushedObject(i) is the ref of the entry
\* that merged.push(...) adds for sorted[i].
\* Mutant: merged.push(seg), the raw object itself.
pushedObject_sameObject(i) == i

\* merged.push({ ...seg }): a new object
pushedObject(i) == 0

entryFields(heap, entry) == IF entry.ref = 0 THEN entry.seg ELSE heap.sorted[entry.ref]

\* last.end = seg.end, written to the object that `last` refers to
assignEnd(heap, end) ==
  LET n == Len(heap.merged)
      ref == heap.merged[n].ref
  IN  IF ref = 0
      THEN [heap EXCEPT !.merged[n].seg.end = end]
      ELSE [heap EXCEPT !.sorted[ref].end = end]

objectStep(heap, i, fps, mergeGapSec) ==
  LET seg == heap.sorted[i]
      pushed == [heap EXCEPT !.merged = Append(@, [ref |-> pushedObject(i), seg |-> seg])]
  IN  IF Len(heap.merged) = 0 THEN pushed
      ELSE LET last == entryFields(heap, heap.merged[Len(heap.merged)])
           IN  IF shouldMerge(last, seg, fps, mergeGapSec)
               THEN IF seg.end > last.end THEN assignEnd(heap, seg.end) ELSE heap
               ELSE pushed

RECURSIVE objectWalk(_, _, _, _)
objectWalk(heap, i, fps, mergeGapSec) ==
  IF i > Len(heap.sorted) THEN heap
  ELSE objectWalk(objectStep(heap, i, fps, mergeGapSec), i + 1, fps, mergeGapSec)

\* The array rawSegments as mergeAndFilterSegments leaves it: sorted in place,
\* its objects as the walk left them.
rawSegmentsAfter(rawSegments, fps, mergeGapSec) ==
  objectWalk([sorted |-> sortByStart(rawSegments), merged |-> <<>>], 1, fps, mergeGapSec).sorted

\* Mutant: strict comparison, framesToSec(...) > minDurationSec.
keepSegment_strict(seg, fps, minDurationSec) ==
  ~DivLeq(seg.end - seg.start + 1, fps, minDurationSec)

\* framesToSec(seg.end - seg.start + 1) >= minDurationSec
keepSegment(seg, fps, minDurationSec) == DivGeq(seg.end - seg.start + 1, fps, minDurationSec)

\* Mutant: the kept segments are returned last first.
durationFilter_reversed(merged, fps, minDurationSec) ==
  LET kept == SelectSeq(merged, LAMBDA seg : keepSegment(seg, fps, minDurationSec))
  IN  [ i \in 1 .. Len(kept) |-> kept[Len(kept) + 1 - i] ]

\* merged.filter(seg => framesToSec(seg.end - seg.start + 1) >= minDurationSec)
durationFilter(merged, fps, minDurationSec) ==
  SelectSeq(merged, LAMBDA seg : keepSegment(seg, fps, minDurationSec))

mergeAndFilterSegments(rawSegments, fps, mergeGapSec, minDurationSec) ==
  durationFilter(mergeSegments(rawSegments, fps, mergeGapSec), fps, minDurationSec)

\* ------------- the inline copy in Dashboard.setupSegmentFiltering (dashboard.js)
\* Mutant: strict comparison in the copy, (covSeries[f] || 0) > minCov.
inlineQualifies_strict(covSeries, promSeries, presentSet, f, minCov, minProm) ==
  /\ (IF presentSet = {} THEN TRUE ELSE (f + 1) \in presentSet)
  /\ OrZero(JsIndex(covSeries, f)) > minCov
  /\ OrZero(JsIndex(promSeries, f)) >= minProm

\* isPresent && covOk && promOk of the copy
inlineQualifies(covSeries, promSeries, presentSet, f, minCov, minProm) ==
  /\ (IF presentSet = {} THEN TRUE ELSE (f + 1) \in presentSet)
  /\ OrZero(JsIndex(covSeries, f)) >= minCov
  /\ OrZero(JsIndex(promSeries, f)) >= minProm

\* The for loop of the copy from frame f on, then flush(maxLen - 1); start is
\* <<>> for null, segs is the shared array rawSegments.
RECURSIVE inlineFrames(_, _, _, _, _, _, _, _, _, _)
inlineFrames(segs, start, logo, covSeries, promSeries, presentSet, f, maxLen, minCov, minProm) ==
  IF f >= maxLen
  THEN IF start # <<>> THEN Append(segs, Seg(logo, start[1], maxLen - 1)) ELSE segs
  ELSE IF inlineQualifies(covSeries, promSeries, presentSet, f, minCov, minProm)
       THEN inlineFrames(segs, IF start = <<>> THEN << f >> ELSE start, logo, covSeries,
                         promSeries, presentSet, f + 1, maxLen, minCov, minProm)
       ELSE inlineFrames(IF start # <<>> THEN Append(segs, Seg(logo, start[1], f - 1)) ELSE segs,
                         <<>>, logo, covSeries, promSeries, presentSet, f + 1, maxLen,
                         minCov, minProm)

\* logos.forEach(logo => { ... }) of the copy, from logo i on.
RECURSIVE inlineLogos(_, _, _, _, _, _, _, _)
inlineLogos(segs, logos, i, covData, promData, presData, minCov, minProm) ==
  IF i > Len(logos) THEN segs
  ELSE LET covSeries == SeriesOf(covData, logos[i])
           promSeries == SeriesOf(promData, logos[i])
           presentSet == PresentSetOf(presData, logos[i])
       IN  inlineLogos(inlineFrames(segs, <<>>, logos[i], covSeries, promSeries, presentSet, 0,
                                    Max(Len(covSeries), Len(promSeries)), minCov, minProm),
                       logos, i + 1, covData, promData, presData, minCov, minProm)

\* rawSegments.forEach(seg => { ... }) of the copy, from sorted[i] on.
RECURSIVE inlineMerge(_, _, _, _, _)
inlineMerge(merged, sorted, i, fps, mergeGapSec) ==
  IF i > Len(sorted) THEN merged
  ELSE LET seg == sorted[i]
           last == merged[Len(merged)]
       IN  IF Len(merged) = 0
           THEN inlineMerge(<< seg >>, sorted, i + 1, fps, mergeGapSec)
           ELSE IF seg.logo = last.logo
                   /\ DivLeq(Max(0, seg.start - (last.end + 1)), fps, mergeGapSec)
                THEN inlineMerge(IF seg.end > last.end
                                 THEN [merged EXCEPT ![Len(merged)].end = seg.end]
                                 ELSE merged,
                                 sorted, i + 1, fps, mergeGapSec)
                ELSE inlineMerge(Append(merged, seg), sorted, i + 1, fps, mergeGapSec)

\* const results of the copy, with its mergeGapSec = 1 and minDurationSec = 1.0.
inlineResults(logos, covData, promData, presData, minCov, minProm, fps) ==
  LET raw == inlineLogos(<<>>, logos, 1, covData, promData, presData, minCov, minProm)
      merged == inlineMerge(<<>>, sortByStart(raw), 1, fps, 1)
  IN  SelectSeq(merged, LAMBDA seg : DivGeq(seg.end - seg.start + 1, fps, 1))

\* ------------------------------------------------------ renderSegmentResults
Abs(x) == IF x < 0 THEN -x ELSE x

Min(a, b) == IF a <= b THEN a ELSE b

Digits == << "0", "1", "2", "3", "4", "5", "6", "7", "8", "9" >>

\* The decimal digits of a natural number, most significant first.
RECURSIVE decimalDigits(_)
decimalDigits(n) ==
  IF n < 10 THEN << Digits[n + 1] >>
  ELSE Append(decimalDigits(n \div 10), Digits[(n % 10) + 1])

\* (frame / fps).toFixed(2), as Number.prototype.toFixed builds the string:
\* a "-" for a value below zero (not for -0), then the integer n for which
\* n / 100 is nearest to the magnitude (the larger n of two equally near),
\* written with two digits after the point. frame / 0 is NaN or +-Infinity.
\* The quotient is taken exactly; for the fps values of the model
\* 100 * frame / fps is never within a rounding error of a half.
toFixed2(frame, fps) ==
  IF fps = 0
  THEN IF frame = 0 THEN << "N", "a", "N" >>
       ELSE IF frame > 0 THEN << "I", "n", "f", "i", "n", "i", "t", "y" >>
       ELSE << "-", "I", "n", "f", "i", "n", "i", "t", "y" >>
  ELSE LET n == (200 * Abs(frame) + Abs(fps)) \div (2 * Abs(fps))
           sign == IF frame * fps < 0 THEN << "-" >> ELSE <<>>
       IN  sign \o decimalDigits(n \div 100)
                \o << ".", Digits[((n % 100) \div 10) + 1], Digits[(n % 10) + 1] >>

\* Mutant: the frame index is formatted without the division by fps.
toTime_noDivide(frame, fps) == toFixed2(frame, 1)

\* const toTime = (frame) => (frame / fps).toFixed(2)
toTime(frame, fps) == toFixed2(frame, fps)

\* results.slice(0, 50)
sliceToCap(results) == SubSeq(results, 1, Min(DisplayCap, Len(results)))

\* One list-group-item: logo, "toTime(start)s - toTime(end)s", "frames start - end".
renderRow(r, fps) ==
  [logo |-> r.logo, startTime |-> toTime(r.start, fps), endTime |-> toTime(r.end, fps),
   start |-> r.start, end |-> r.end]

\* Mutant: the note is also shown for a list of exactly 50 segments.
renderNote_atCap(results) == IF Len(results) >= DisplayCap THEN << Len(results) >> ELSE <<>>

\* results.length > 50 ? "Showing first 50 of N segments" : ''  (<<N>> or <<>>)
renderNote(results) == IF Len(results) > DisplayCap THEN << Len(results) >> ELSE <<>>

\* renderSegmentResults(results, toTime): what is written to #segmentResults.
renderSegmentResults(results, fps) ==
  IF Len(results) = 0
  THEN [out |-> "nosegments", shown |-> <<>>, note |-> <<>>]
  ELSE [out |-> "list",
        shown |-> [ i \in 1 .. Len(sliceToCap(results)) |-> renderRow(results[i], fps) ],
        note |-> renderNote(results)]

\* ------------------------------------------------------------------- state
VARIABLES
  pc,                 \* position: "constructed", "ready", "done"; "extract", "extracted"; "merge", "merged"
  logoStats,          \* Object.keys(this.dashboard.logoStats), in enumeration order
  coveragePerFrame,   \* coveragePerFrame.per_logo: logo -> coverage array ({} when not loaded)
  prominencePerFrame, \* prominencePerFrame.per_logo: logo -> prominence array
  timelineStats,      \* timelineStats: logo -> set of the listed frame numbers
  videoMetadataFps,   \* videoMetadata.fps as found in the metadata
  fps,                \* const fps of setupSegmentFiltering (0 while not yet set)
  query,              \* logoSelect.value as the last run of the click handler read it
  logoQ,              \* locals of the last run of the click handler
  minCov,
  minProm,
  mergeGapSec,
  minDurationSec,
  logos,
  rawSegments,        \* the same array after the in-place sort
  merged,             \* the accumulator `merged` at the end of the walk
  results,            \* what mergeAndFilterSegments returned
  out,                \* what #segmentResults shows: "", "nomatch", "nosegments", "list"
  shown,              \* the rows of the rendered list
  note,               \* <<N>> when "Showing first 50 of N segments" is shown, else <<>>
  steps,              \* the methods the last run of the handler called, in order
  first,              \* history: <<>> or the inputs and output of the first click
  loop                \* <<>>, or the loop variables of a run that is followed step by step

vars == << pc, logoStats, coveragePerFrame, prominencePerFrame, timelineStats,
           videoMetadataFps, fps, query, logoQ, minCov, minProm, mergeGapSec,
           minDurationSec, logos, found, rawSegments, merged, results, out, shown, note, steps, first, loop >>

data == << logoStats, coveragePerFrame, prominencePerFrame, timelineStats, videoMetadataFps >>

NoRun ==
  /\ query = <<>>
  /\ logoQ = <<>>
  /\ minCov = 0
  /\ minProm = 0
  /\ mergeGapSec = 0
  /\ minDurationSec = 0
  /\ logos = <<>>
  /\ rawSegments = <<>>
  /\ merged = <<>>
  /\ results = <<>>
  /\ out = ""
  /\ shown = <<>>
  /\ note = <<>>
  /\ steps = <<>>
  /\ first = <<>>
  /\ loop = <<>>

\* Orders in which the keys of logoStats can be enumerated.
LogoOrders == { s \in SeqsUpTo(Logos, Cardinality(Logos)) : Cardinality(Range(s)) = Len(s) }

\* The arrays of n entries over S: one entry per frame of a video of n frames.
SeqsOfLen(S, n) == { s \in SeqsUpTo(S, n) : Len(s) = n }

\* ------------------------------------------------- the dashboard page (Spec)
Init ==
  /\ pc = "constructed"
  /\ logoStats \in LogoOrders
  /\ coveragePerFrame \in [Range(logoStats) -> SeqsOfLen(CovValues, MaxLen)]
  /\ prominencePerFrame \in [Range(logoStats) -> SeqsOfLen({1}, MaxLen)]
  /\ timelineStats = [l \in {} |-> {}]
  /\ videoMetadataFps \in NumberInputs(FpsValues)
  /\ fps = 0
  /\ found = <<>>
  /\ NoRun

\* setupSegmentFiltering: const fps = Number(videoMetadata.fps) || 25
Setup ==
  /\ pc = "constructed"
  /\ fps' = NumberOr(videoMetadataFps, DefaultFps)
  /\ pc' = "ready"
  /\ UNCHANGED << data, query, logoQ, minCov, minProm, mergeGapSec, minDurationSec,
                  logos, found, rawSegments, merged, results, out, shown, note, steps, first, loop >>

\* Mutant: the `return` after the "No logos match" warning is missing.
handlerSteps_noReturn(sel) ==
  << "findRawSegments", "mergeAndFilterSegments", "renderSegmentResults" >>

\* The calls the click handler makes for the selected logos: none when the
\* list is empty (the handler shows the warning and returns), else the three
\* of lines 108-110.
handlerSteps(sel) ==
  IF Len(sel) = 0 THEN <<>>
  ELSE << "findRawSegments", "mergeAndFilterSegments", "renderSegmentResults" >>

\* The click handler of #segmentSearchBtn; q, c and p are the values of the
\* logo select and of the two threshold inputs.
Click(q, c, p) ==
  /\ pc \in { "ready", "done" }
  /\ pc' = "done"
  /\ query' = q
  /\ logoQ' = toLowerCase(trim(q))
  /\ minCov' = NumberOr(c, 0)
  /\ minProm' = NumberOr(p, 0)
  /\ mergeGapSec' = mergeGapSecConst
  /\ minDurationSec' = minDurationSecConst
  /\ logos' = filterLogos(logoStats, logoQ')
  /\ steps' = handlerSteps(logos')
  /\ IF "findRawSegments" \in Range(steps')
     THEN found' = findRawSegments(logos', coveragePerFrame, prominencePerFrame,
                                   timelineStats, minCov', minProm')
     ELSE found' = <<>>
  /\ IF "mergeAndFilterSegments" \in Range(steps')
     THEN /\ rawSegments' = rawSegmentsAfter(found', fps, mergeGapSec')
          /\ merged' = mergeSegments(found', fps, mergeGapSec')
          /\ results' = durationFilter(merged', fps, minDurationSec')
     ELSE /\ rawSegments' = <<>>
          /\ merged' = <<>>
          /\ results' = <<>>
  /\ IF "renderSegmentResults" \in Range(steps')
     THEN \E rendered \in { renderSegmentResults(results', fps) } :
            /\ out' = rendered.out
            /\ shown' = rendered.shown
            /\ note' = rendered.note
     ELSE /\ out' = "nomatch"
          /\ shown' = <<>>
          /\ note' = <<>>
  /\ UNCHANGED << data, fps >>

Next ==
  \/ Setup
  \/ \E q \in Queries, c \in ThresholdInputs, p \in ThresholdInputs :
       Click(q, c, p) /\ UNCHANGED << first, loop >>

Spec == Init /\ [][Next]_vars

\* ------------------------------------- findRawSegments alone (SpecExtract)
\* One logo with any coverage array, prominence array and presence list, each
\* of which may also be missing from its map.
InitExtract ==
  /\ pc = "extract"
  /\ logoStats = << ExtractLogo >>
  /\ coveragePerFrame \in Maps({ ExtractLogo }, SeqsUpTo(CovValues, MaxLen))
  /\ prominencePerFrame \in Maps({ ExtractLogo }, SeqsUpTo(PromValues, MaxLen))
  /\ timelineStats \in Maps({ ExtractLogo }, SUBSET (0 .. MaxLen + 1))
  /\ videoMetadataFps = [kind |-> "undefined", val |-> 0]
  /\ fps = DefaultFps
  /\ found = <<>>
  /\ NoRun

\* const rawSegments = this.findRawSegments(logos, covData, promData, minCov, minProm)
CallFindRawSegments(c, p) ==
  /\ pc = "extract"
  /\ pc' = "extracted"
  /\ minCov' = c
  /\ minProm' = p
  /\ logos' = logoStats
  /\ found' = findRawSegments(logos', coveragePerFrame, prominencePerFrame, timelineStats, c, p)
  /\ steps' = << "findRawSegments" >>
  /\ UNCHANGED << data, fps, query, logoQ, mergeGapSec, minDurationSec, rawSegments, merged, results,
                  out, shown, note, first, loop >>

NextExtract == \E c \in ThresholdValues, p \in ThresholdValues : CallFindRawSegments(c, p)

SpecExtract == InitExtract /\ [][NextExtract]_vars

\* ------------------------------- mergeAndFilterSegments alone (SpecMerge)
\* The segments (inclusive ranges, start <= end) over a set of frames.
SegmentsOver(frames) ==
  { x \in { Seg(l, s, e) : l \in Logos, s \in frames, e \in frames } : x.start <= x.end }

InitMerge ==
  /\ pc = "merge"
  /\ logoStats = <<>>
  /\ coveragePerFrame = [l \in {} |-> <<>>]
  /\ prominencePerFrame = [l \in {} |-> <<>>]
  /\ timelineStats = [l \in {} |-> {}]
  /\ videoMetadataFps = [kind |-> "undefined", val |-> 0]
  /\ fps \in MergeFps
  /\ found \in SeqsUpTo(SegmentsOver(MergeFrames), MaxSegs)
  /\ NoRun

\* const results = this.mergeAndFilterSegments(rawSegments, fps, mergeGapSec, minDurationSec)
CallMergeAndFilterSegments(g, d) ==
  /\ pc \in { "merge", "extracted" }
  /\ pc' = "merged"
  /\ mergeGapSec' = g
  /\ minDurationSec' = d
  /\ rawSegments' = rawSegmentsAfter(found, fps, g)
  /\ merged' = mergeSegments(found, fps, g)
  /\ results' = mergeAndFilterSegments(found, fps, g, d)
  /\ steps' = Append(steps, "mergeAndFilterSegments")
  /\ UNCHANGED << data, fps, query, logoQ, minCov, minProm, logos, found, out, shown, note, first, loop >>

NextMerge == \E g \in GapValues, d \in DurationValues : CallMergeAndFilterSegments(g, d)

SpecMerge == InitMerge /\ [][NextMerge]_vars

\* ------------------------------------- repeated clicks (SpecRepeat)
\* What the handler read and what it produced in its run in the next state.
Invocation ==
  [logoQ |-> logoQ', minCov |-> minCov', minProm |-> minProm',
   found |-> found', merged |-> merged', results |-> results',
   out |-> out', shown |-> shown', note |-> note']

SameInputs(inv) == inv.logoQ = logoQ /\ inv.minCov = minCov /\ inv.minProm = minProm

InitRepeat ==
  /\ Init
  /\ videoMetadataFps \in { [kind |-> "number", val |-> v] : v \in RepeatFps }

\* A click; `first` keeps the first run of the handler since the page was
\* loaded, and whether a run with other inputs has happened since.
ClickRepeat(q, c, p) ==
  /\ Click(q, c, p)
  /\ UNCHANGED loop
  /\ first' = IF first = <<>>
              THEN << [run |-> Invocation, others |-> FALSE] >>
              ELSE << [first[1] EXCEPT !.others =
                         @ \/ first[1].run.logoQ # logoQ'
                           \/ first[1].run.minCov # minCov'
                           \/ first[1].run.minProm # minProm'] >>

NextRepeat ==
  \/ Setup
  \/ \E q \in RepeatQueries, c \in ThresholdInputs, p \in ThresholdInputs : ClickRepeat(q, c, p)

SpecRepeat == InitRepeat /\ [][NextRepeat]_vars

\* --------------------------- one run of the handler, loop by loop (SpecRun)
\* maxLen of findRawSegments for one logo.
maxLenOf(logo) ==
  Max(Len(SeriesOf(coveragePerFrame, logo)), Len(SeriesOf(prominencePerFrame, logo)))

\* Mutant: the for loop does not advance, f stays.
nextFrame_stuck(f) == f

\* f++ of for (let f = 0; f < maxLen; f++)
nextFrame(f) == f + 1

InitRun == InitRepeat

\* The click: the handler reads its inputs and selects the logos.
Press(q, c, p) ==
  /\ pc \in { "ready", "done" }
  /\ pc' = "computing"
  /\ query' = q
  /\ logoQ' = toLowerCase(trim(q))
  /\ minCov' = NumberOr(c, 0)
  /\ minProm' = NumberOr(p, 0)
  /\ mergeGapSec' = mergeGapSecConst
  /\ minDurationSec' = minDurationSecConst
  /\ logos' = filterLogos(logoStats, logoQ')
  /\ steps' = <<>>
  /\ found' = <<>>
  /\ rawSegments' = <<>>
  /\ merged' = <<>>
  /\ results' = <<>>
  /\ out' = ""
  /\ shown' = <<>>
  /\ note' = <<>>
  /\ loop' = << [at |-> IF Len(logos') = 0 THEN "nomatch" ELSE "logos",
                 logo |-> 1, f |-> 0, start |-> <<>>, seg |-> 1] >>
  /\ UNCHANGED << data, fps, first >>

\* if (logos.length === 0) { ...'No logos match'...; return; }
ReturnNoMatch ==
  /\ pc = "computing"
  /\ loop[1].at = "nomatch"
  /\ pc' = "done"
  /\ out' = "nomatch"
  /\ loop' = << [loop[1] EXCEPT !.at = "returned"] >>
  /\ UNCHANGED << data, fps, query, logoQ, minCov, minProm, mergeGapSec, minDurationSec, logos,
                  found, rawSegments, merged, results, shown, note, steps, first >>

\* One iteration of the for loop over the frames of the current logo.
ScanFrame ==
  /\ pc = "computing"
  /\ loop[1].at = "logos"
  /\ loop[1].logo <= Len(logos)
  /\ loop[1].f < maxLenOf(logos[loop[1].logo])
  /\ \E st \in { scanFrame([start |-> loop[1].start, rawSegments |-> found],
                            logos[loop[1].logo],
                            SeriesOf(coveragePerFrame, logos[loop[1].logo]),
                            SeriesOf(prominencePerFrame, logos[loop[1].logo]),
                            PresentSetOf(timelineStats, logos[loop[1].logo]),
                            loop[1].f, minCov, minProm) } :
       /\ found' = st.rawSegments
       /\ loop' = << [loop[1] EXCEPT !.start = st.start, !.f = nextFrame(loop[1].f)] >>
  /\ steps' = << "findRawSegments" >>
  /\ UNCHANGED << pc, data, fps, query, logoQ, minCov, minProm, mergeGapSec, minDurationSec, logos,
                  rawSegments, merged, results, out, shown, note, first >>

\* The end of the for loop of one logo: flush(maxLen - 1), then the next logo.
EndOfFrames ==
  /\ pc = "computing"
  /\ loop[1].at = "logos"
  /\ loop[1].logo <= Len(logos)
  /\ loop[1].f >= maxLenOf(logos[loop[1].logo])
  /\ found' = flush([start |-> loop[1].start, rawSegments |-> found], logos[loop[1].logo],
                    maxLenOf(logos[loop[1].logo]) - 1).rawSegments
  /\ loop' = << [loop[1] EXCEPT !.logo = @ + 1, !.f = 0, !.start = <<>>] >>
  /\ steps' = << "findRawSegments" >>
  /\ UNCHANGED << pc, data, fps, query, logoQ, minCov, minProm, mergeGapSec, minDurationSec, logos,
                  rawSegments, merged, results, out, shown, note, first >>

\* findRawSegments returns; mergeAndFilterSegments sorts the list.
SortRawSegments ==
  /\ pc = "computing"
  /\ loop[1].at = "logos"
  /\ loop[1].logo > Len(logos)
  /\ rawSegments' = sortByStart(found)
  /\ loop' = << [loop[1] EXCEPT !.at = "segments", !.seg = 1] >>
  /\ steps' = << "findRawSegments", "mergeAndFilterSegments" >>
  /\ UNCHANGED << pc, data, fps, query, logoQ, minCov, minProm, mergeGapSec, minDurationSec, logos,
                  found, merged, results, out, shown, note, first >>

\* One call of the callback of rawSegments.forEach.
MergeSegment ==
  /\ pc = "computing"
  /\ loop[1].at = "segments"
  /\ loop[1].seg <= Len(rawSegments)
  /\ merged' = mergeStep(merged, rawSegments[loop[1].seg], fps, mergeGapSec)
  /\ loop' = << [loop[1] EXCEPT !.seg = @ + 1] >>
  /\ UNCHANGED << pc, data, fps, query, logoQ, minCov, minProm, mergeGapSec, minDurationSec, logos,
                  found, rawSegments, results, out, shown, note, steps, first >>

\* return merged.filter(...), then renderSegmentResults(results, toTime).
FilterAndRender ==
  /\ pc = "computing"
  /\ loop[1].at = "segments"
  /\ loop[1].seg > Len(rawSegments)
  /\ pc' = "done"
  /\ results' = durationFilter(merged, fps, minDurationSec)
  /\ \E rendered \in { renderSegmentResults(results', fps) } :
       /\ out' = rendered.out
       /\ shown' = rendered.shown
       /\ note' = rendered.note
  /\ loop' = << [loop[1] EXCEPT !.at = "returned"] >>
  /\ steps' = Append(steps, "renderSegmentResults")
  /\ UNCHANGED << data, fps, query, logoQ, minCov, minProm, mergeGapSec, minDurationSec, logos,
                  found, rawSegments, merged, first >>

\* The steps of a run that has started; a run is one synchronous call, which
\* the browser executes to completion.
RunStep ==
  \/ ReturnNoMatch
  \/ ScanFrame
  \/ EndOfFrames
  \/ SortRawSegments
  \/ MergeSegment
  \/ FilterAndRender

NextRun ==
  \/ Setup
  \/ \E q \in RepeatQueries, c \in ThresholdInputs, p \in ThresholdInputs : Press(q, c, p)
  \/ RunStep

SpecRun == InitRun /\ [][NextRun]_vars /\ WF_vars(RunStep)

\* ------------------ the three methods in sequence, and long lists (SpecRender)
\* The segments of a long video: segment k is of logo "b" for odd k and of
\* logo "Ab" for even k, `width` frames long, and starts four frames after
\* segment k - 1.
LongSegment(k, width) ==
  Seg(IF k % 2 = 0 THEN << "A", "b" >> ELSE << "b" >>, 4 * (k - 1), 4 * (k - 1) + width - 1)

LongList(n, width) == [ k \in 1 .. n |-> LongSegment(k, width) ]

\* The coverage array that has these segments as its runs.
LongCoverage(logo, n, width) ==
  [ i \in 1 .. 4 * n |->
      IF LongSegment(((i - 1) \div 4) + 1, width).logo = logo /\ (i - 1) % 4 < width
      THEN 1 ELSE 0 ]

\* One logo without presence list and without prominence array, whose coverage
\* array has the length of the scenario array; fps is the default.
InitScenario ==
  /\ pc = "extract"
  /\ logoStats = << ExtractLogo >>
  /\ coveragePerFrame \in [{ ExtractLogo } -> SeqsOfLen(ScenarioValues, Len(ScenarioCoverage))]
  /\ prominencePerFrame = [l \in {} |-> <<>>]
  /\ timelineStats = [l \in {} |-> {}]
  /\ videoMetadataFps = [kind |-> "undefined", val |-> 0]
  /\ fps = DefaultFps
  /\ found = <<>>
  /\ NoRun

\* The handler just before its call of renderSegmentResults, on a video of up
\* to MaxResults short appearances that are too far apart to merge: found
\* holds them logo by logo, the sorted array, merged and results hold them by start.
InitLong ==
  /\ pc = "merged"
  /\ logoStats \in { s \in LogoOrders : Range(s) = Logos }
  /\ \E n \in 0 .. MaxResults, width \in LongWidths :
       /\ coveragePerFrame = [l \in Range(logoStats) |-> LongCoverage(l, n, width)]
       /\ rawSegments = LongList(n, width)
  /\ prominencePerFrame = [l \in {} |-> <<>>]
  /\ timelineStats = [l \in {} |-> {}]
  /\ videoMetadataFps = [kind |-> "number", val |-> 1]
  /\ fps = 1
  /\ query = <<>>
  /\ logoQ = <<>>
  /\ minCov = 1
  /\ minProm = 0
  /\ mergeGapSec = mergeGapSecConst
  /\ minDurationSec = minDurationSecConst
  /\ logos = logoStats
  /\ found = SelectSeq(rawSegments, LAMBDA seg : seg.logo = logos[1])
               \o SelectSeq(rawSegments, LAMBDA seg : seg.logo # logos[1])
  /\ merged = rawSegments
  /\ results = rawSegments
  /\ out = ""
  /\ shown = <<>>
  /\ note = <<>>
  /\ steps = << "findRawSegments", "mergeAndFilterSegments" >>
  /\ first = <<>>
  /\ loop = <<>>

InitRender == InitScenario \/ InitLong

\* this.renderSegmentResults(results, toTime)
CallRenderSegmentResults ==
  /\ pc = "merged"
  /\ pc' = "rendered"
  /\ \E rendered \in { renderSegmentResults(results, fps) } :
       /\ out' = rendered.out
       /\ shown' = rendered.shown
       /\ note' = rendered.note
  /\ steps' = Append(steps, "renderSegmentResults")
  /\ UNCHANGED << data, fps, query, logoQ, minCov, minProm, mergeGapSec, minDurationSec, logos,
                  found, rawSegments, merged, results, first, loop >>

NextRender ==
  \/ \E c \in ThresholdValues, p \in ThresholdValues : CallFindRawSegments(c, p)
  \/ \E g \in GapValues, d \in DurationValues : CallMergeAndFilterSegments(g, d)
  \/ CallRenderSegmentResults

SpecRender == InitRender /\ [][NextRender]_vars

\* ---------------------------------------- the properties and their witnesses
\* What the page's data say about frame f of logo l, read off the data
\* directly (not through findRawSegments).
CoverageLen(l) == IF l \in DOMAIN coveragePerFrame THEN Len(coveragePerFrame[l]) ELSE 0

ProminenceLen(l) == IF l \in DOMAIN prominencePerFrame THEN Len(prominencePerFrame[l]) ELSE 0

ScanLen(l) == IF CoverageLen(l) >= ProminenceLen(l) THEN CoverageLen(l) ELSE ProminenceLen(l)

CoverageAt(l, f) == IF f < CoverageLen(l) THEN coveragePerFrame[l][f + 1] ELSE 0

ProminenceAt(l, f) == IF f < ProminenceLen(l) THEN prominencePerFrame[l][f + 1] ELSE 0

PresenceListed(l) == IF l \in DOMAIN timelineStats THEN timelineStats[l] ELSE {}

ThresholdsMet(l, f) == CoverageAt(l, f) >= minCov /\ ProminenceAt(l, f) >= minProm

Qualifies(l, f) ==
  /\ PresenceListed(l) = {} \/ (f + 1) \in PresenceListed(l)
  /\ ThresholdsMet(l, f)

\* The maximal runs of frames of 0..n-1 that satisfy Q, as pairs <<first, last>>.
MaximalRuns(n, Q(_)) ==
  { r \in (0 .. n - 1) \X (0 .. n - 1) :
      /\ r[1] <= r[2]
      /\ \A f \in r[1] .. r[2] : Q(f)
      /\ r[1] = 0 \/ ~Q(r[1] - 1)
      /\ r[2] = n - 1 \/ ~Q(r[2] + 1) }

FoundOf(l) == SelectSeq(found, LAMBDA s : s.logo = l)

RangesOf(segs) == { << segs[i].start, segs[i].end >> : i \in DOMAIN segs }

InFound(l, f) ==
  \E i \in DOMAIN found : found[i].logo = l /\ found[i].start <= f /\ f <= found[i].end

Frames(seg) == seg.end - seg.start + 1

\* C1: every segment of the final output of the pipeline (extract, merge,
\* duration filter) has start <= end.
C1_StartLeEnd == \A i \in DOMAIN results : results[i].start <= results[i].end

C1_Witness ==
  /\ pc = "done"
  /\ Len(merged) < Len(found)
  /\ \E i \in DOMAIN results : results[i].start < results[i].end

\* C2: every segment of the final output lasts at least minDurationSec,
\* (end - start + 1) / fps >= minDurationSec, and every merged segment that
\* lasts at least minDurationSec is in the final output.
C2_DurationBound ==
  pc = "done" =>
    /\ \A i \in DOMAIN results : DivGeq(Frames(results[i]), fps, minDurationSec)
    /\ \A j \in DOMAIN merged :
         DivGeq(Frames(merged[j]), fps, minDurationSec)
           => \E i \in DOMAIN results : results[i] = merged[j]

\* A segment that lasts exactly minDurationSec is kept while another is dropped.
C2_Witness ==
  /\ pc = "done"
  /\ fps > 0
  /\ \E i \in DOMAIN results : Frames(results[i]) = minDurationSec * fps
  /\ Len(results) < Len(merged)

\* C3: the merge step is idempotent: merging the merged list again returns it
\* unchanged.
C3_MergeIdempotent ==
  pc = "merged" => mergeSegments(merged, fps, mergeGapSec) = merged

C3_Witness ==
  /\ pc = "merged"
  /\ Len(merged) >= 2
  /\ Len(merged) < Len(found)
  /\ \E i \in DOMAIN merged : \A j \in DOMAIN found : found[j] # merged[i]

\* C4: for each selected logo the raw segments are exactly the maximal runs of
\* qualifying frames of 0..maxLen-1, one segment per run, and a frame lies in a
\* raw segment of the logo if and only if it qualifies.
C4_MaximalRuns ==
  pc = "extracted" =>
    \A l \in Range(logos) :
      /\ RangesOf(FoundOf(l)) = MaximalRuns(ScanLen(l), LAMBDA f : Qualifies(l, f))
      /\ Len(FoundOf(l)) = Cardinality(MaximalRuns(ScanLen(l), LAMBDA f : Qualifies(l, f)))
      /\ \A f \in 0 .. ScanLen(l) - 1 : InFound(l, f) <=> Qualifies(l, f)

C4_Witness ==
  /\ pc = "extracted"
  /\ Len(found) >= 2
  /\ minCov > 0
  /\ PresenceListed(ExtractLogo) # {}

\* C5: segments of two different logos are never merged into one: every merged
\* segment starts where a raw segment of its own logo starts and ends where a
\* raw segment of its own logo ends, and a logo that has a raw segment has a
\* merged segment of its own.
C5_NoCrossLogoMerge ==
  pc = "done" =>
    /\ \A i \in DOMAIN merged :
         /\ \E j \in DOMAIN found :
              found[j].logo = merged[i].logo /\ found[j].start = merged[i].start
         /\ \E k \in DOMAIN found :
              found[k].logo = merged[i].logo /\ found[k].end = merged[i].end
    /\ \A j \in DOMAIN found : \E i \in DOMAIN merged : merged[i].logo = found[j].logo

\* Two logos whose raw segments overlap in time give two separate results.
C5_Witness ==
  /\ pc = "done"
  /\ Len(results) = 2
  /\ results[1].logo # results[2].logo
  /\ results[2].start <= results[1].end

\* C6: the fps of the pipeline is always strictly positive, and it is 25 when
\* the supplied fps is absent or not numeric.
C6_FpsPositive ==
  pc \in { "ready", "done" } =>
    /\ fps > 0
    /\ videoMetadataFps.kind # "number" => fps = DefaultFps

\* C7: a frame of the scanned range beyond the end of the coverage or of the
\* prominence array is evaluated with the missing value as 0, and the
\* extractor returns segments within the scanned range.
C7_MissingAsZero ==
  pc = "extracted" =>
    \A l \in Range(logos) :
      /\ \A f \in 0 .. ScanLen(l) - 1 :
           (f >= CoverageLen(l) \/ f >= ProminenceLen(l)) =>
             ( InFound(l, f) <=>
                 /\ PresenceListed(l) = {} \/ (f + 1) \in PresenceListed(l)
                 /\ (IF f >= CoverageLen(l) THEN 0 ELSE coveragePerFrame[l][f + 1]) >= minCov
                 /\ (IF f >= ProminenceLen(l) THEN 0 ELSE prominencePerFrame[l][f + 1]) >= minProm )
      /\ \A i \in DOMAIN found :
           found[i].logo = l => 0 <= found[i].start /\ found[i].end <= ScanLen(l) - 1

\* The two arrays differ in length and a raw segment reaches past the shorter.
C7_Witness ==
  /\ pc = "extracted"
  /\ ExtractLogo \in DOMAIN coveragePerFrame
  /\ ProminenceLen(ExtractLogo) < CoverageLen(ExtractLogo)
  /\ \E i \in DOMAIN found : found[i].end >= ProminenceLen(ExtractLogo)

\* C8: a logo whose coverage and prominence arrays both have length 0 has no
\* raw segment, whatever its presence set and the thresholds are.
C8_EmptyArrays ==
  pc = "extracted" =>
    \A l \in Range(logos) :
      ScanLen(l) = 0 => \A i \in DOMAIN found : found[i].logo # l

C8_Witness ==
  /\ pc = "extracted"
  /\ ExtractLogo \in DOMAIN coveragePerFrame
  /\ ExtractLogo \in DOMAIN prominencePerFrame
  /\ ScanLen(ExtractLogo) = 0
  /\ PresenceListed(ExtractLogo) # {}
  /\ minCov = 0
  /\ found = <<>>

\* C9: when the presence set of a logo is empty, its raw segments are exactly
\* the maximal runs of frames with coverage >= minCov and prominence >= minProm.
C9_EmptyPresence ==
  pc = "extracted" =>
    \A l \in Range(logos) :
      PresenceListed(l) = {} =>
        RangesOf(FoundOf(l)) = MaximalRuns(ScanLen(l), LAMBDA f : ThresholdsMet(l, f))

C9_Witness ==
  /\ pc = "extracted"
  /\ PresenceListed(ExtractLogo) = {}
  /\ found # <<>>
  /\ \E f \in 0 .. ScanLen(ExtractLogo) - 1 : ~ThresholdsMet(ExtractLogo, f)

\* C10: when the presence set of a logo is not empty, frame f counts as present
\* if and only if the set contains f + 1: the raw segments are the maximal runs
\* of frames f with f + 1 in the set that meet the thresholds, and a frame f
\* with f + 1 not in the set is in no raw segment.
C10_PresenceOffset ==
  pc = "extracted" =>
    \A l \in Range(logos) :
      PresenceListed(l) # {} =>
        /\ RangesOf(FoundOf(l)) =
             MaximalRuns(ScanLen(l),
                         LAMBDA f : (f + 1) \in PresenceListed(l) /\ ThresholdsMet(l, f))
        /\ \A f \in 0 .. ScanLen(l) - 1 :
             (f + 1) \notin PresenceListed(l) => ~InFound(l, f)

\* Frame 1 is in a raw segment, frame 0 meets the thresholds but is left out
\* because 1 is not listed.
C10_Witness ==
  /\ pc = "extracted"
  /\ 1 \notin PresenceListed(ExtractLogo)
  /\ 2 \in PresenceListed(ExtractLogo)
  /\ ThresholdsMet(ExtractLogo, 0)
  /\ InFound(ExtractLogo, 1)
  /\ ~InFound(ExtractLogo, 0)

\* C11: a run of the handler ends in exactly one of three outcomes: "no
\* matching logos" if and only if the filter selects no logo, and then none of
\* the extraction, merge and filter steps is performed; "no segments" if and
\* only if a logo is selected and the final list is empty; a list otherwise.
C11_Outcomes ==
  pc = "done" =>
    /\ out \in { "nomatch", "nosegments", "list" }
    /\ out = "nomatch" <=> Len(logos) = 0
    /\ out = "nomatch" => steps = <<>> /\ found = <<>> /\ merged = <<>> /\ results = <<>>
    /\ out = "nosegments" <=> Len(logos) > 0 /\ Len(results) = 0
    /\ out = "list" <=> Len(logos) > 0 /\ Len(results) > 0
    /\ out # "nomatch" =>
         steps = << "findRawSegments", "mergeAndFilterSegments", "renderSegmentResults" >>
    /\ out = "list" <=> shown # <<>>

\* Logos exist, but the query matches none of them.
C11_Witness ==
  /\ pc = "done"
  /\ out = "nomatch"
  /\ Len(logoStats) = 2
  /\ logoQ # <<>>

\* The inputs of scenario A: fps 25, one logo without presence list, the
\* scenario's coverage array, minCov 1, minProm 0, mergeGapSec 1.
ScenarioA ==
  /\ fps = 25
  /\ logos = << ExtractLogo >>
  /\ ExtractLogo \in DOMAIN coveragePerFrame
  /\ coveragePerFrame[ExtractLogo] = ScenarioCoverage
  /\ PresenceListed(ExtractLogo) = {}
  /\ minCov = 1
  /\ minProm = 0
  /\ mergeGapSec = 1

\* C12: scenario A with minDurationSec 1: the raw segments are 0-2 and 5-9,
\* the merge gives the single segment 0-9, and the final output is empty.
C12_ScenarioA ==
  (pc \in { "merged", "rendered" } /\ ScenarioA /\ minDurationSec = 1) =>
    /\ found = << Seg(ExtractLogo, 0, 2), Seg(ExtractLogo, 5, 9) >>
    /\ merged = << Seg(ExtractLogo, 0, 9) >>
    /\ results = <<>>

C12_Witness ==
  /\ pc = "rendered"
  /\ ScenarioA
  /\ minDurationSec = 1
  /\ out = "nosegments"

\* C13: scenario A with minDurationSec 0: the final output is the one segment
\* of frames 0 to 9, shown as 0.00s - 0.36s.
C13_ScenarioB ==
  (pc = "rendered" /\ ScenarioA /\ minDurationSec = 0) =>
    /\ results = << Seg(ExtractLogo, 0, 9) >>
    /\ out = "list"
    /\ shown = << [logo |-> ExtractLogo,
                   startTime |-> << "0", ".", "0", "0" >>,
                   endTime |-> << "0", ".", "3", "6" >>,
                   start |-> 0, end |-> 9] >>

C13_Witness ==
  /\ pc = "rendered"
  /\ ScenarioA
  /\ minDurationSec = 0
  /\ Len(shown) = 1

\* sub is full with some entries left out: its entries are entries of full,
\* unchanged, at increasing positions.
IsSubList(sub, full) ==
  \E at \in [1 .. Len(sub) -> 1 .. Len(full)] :
    /\ \A i \in 1 .. Len(sub) : sub[i] = full[at[i]]
    /\ \A i, j \in 1 .. Len(sub) : i < j => at[i] < at[j]

\* C14: the duration filter is a pure filter: the final output is a sub-list
\* of the merged list, every kept segment unchanged and the kept segments in
\* the order they have in the merged list.
C14_PureFilter == pc = "merged" => IsSubList(results, merged)

C14_Witness ==
  /\ pc = "merged"
  /\ Len(merged) = 3
  /\ Len(results) = 2
  /\ results[1] # results[2]
  /\ results[1] = merged[1]
  /\ results[2] = merged[3]

\* C15: invocations are independent and stateless: after any sequence of
\* earlier invocations, an invocation with the inputs of the first invocation
\* (same series, fps, thresholds and logo filter) returns what the first returned.
C15_Stateless ==
  (pc = "done" /\ first # <<>> /\ SameInputs(first[1].run)) =>
    /\ found = first[1].run.found
    /\ merged = first[1].run.merged
    /\ results = first[1].run.results
    /\ out = first[1].run.out
    /\ shown = first[1].run.shown
    /\ note = first[1].run.note

C15_Witness ==
  /\ pc = "done"
  /\ first # <<>>
  /\ first[1].others
  /\ SameInputs(first[1].run)
  /\ Len(results) > 0

\* C16: a run leaves its inputs unchanged: the coverage, prominence and
\* presence data are the same after the run as before, and the merge extends
\* only its own copies: the raw segments are, after the merge, the segments
\* findRawSegments returned, with the logo, start and end they had.
C16_InputsUnchanged ==
  [][ /\ data' = data
      /\ pc' = "done" => rawSegments' = sortByStart(found') ]_vars

C16_Witness ==
  /\ pc = "done"
  /\ Len(rawSegments) = 2
  /\ Len(merged) = 1
  /\ merged[1].end > rawSegments[1].end
  /\ rawSegments[1] \in Range(found)

\* The number a presented time stands for, in hundredths of a second.
RECURSIVE digitsValue(_)
digitsValue(t) ==
  IF t = <<>> THEN 0
  ELSE LET ch == t[Len(t)]
           front == SubSeq(t, 1, Len(t) - 1)
       IN  IF ch = "." THEN digitsValue(front)
           ELSE 10 * digitsValue(front) + (CHOOSE d \in 0 .. 9 : Digits[d + 1] = ch)

hundredths(t) ==
  IF t # <<>> /\ t[1] = "-" THEN 0 - digitsValue(Tail(t)) ELSE digitsValue(t)

\* The same for the pages whose fps is above zero.
ToTimeMonotoneAboveZero ==
  (pc \in { "ready", "done" } /\ fps > 0) =>
    \A f \in 0 .. MaxLen, g \in 0 .. MaxLen :
      f <= g => hundredths(toTime(f, fps)) <= hundredths(toTime(g, fps))

\* With an fps below zero the duration filter drops every segment, so that
\* no row is rendered.
NoRowsBelowZero == fps < 0 => shown = <<>>

\* C17: for the fps of the page, toTime is non-decreasing in the frame index:
\* for frames f <= g the presented time of f is <= the presented time of g.
C17_ToTimeMonotone ==
  pc \in { "ready", "done" } =>
    \A f \in 0 .. MaxLen, g \in 0 .. MaxLen :
      f <= g => hundredths(toTime(f, fps)) <= hundredths(toTime(g, fps))

\* C18: truncation to 50 is done only at presentation: results is the full
\* list of the merged segments that pass the filter, whatever its length;
\* the rendered rows are the first 50 entries of results in order (all of them
\* when there are at most 50); the note is shown iff results has more than 50.
C18_CapAtPresentation ==
  pc = "rendered" =>
    /\ results = durationFilter(merged, fps, minDurationSec)
    /\ Len(shown) = IF Len(results) <= 50 THEN Len(results) ELSE 50
    /\ \A i \in 1 .. Len(shown) :
         /\ shown[i].logo = results[i].logo
         /\ shown[i].start = results[i].start
         /\ shown[i].end = results[i].end
    /\ note # <<>> <=> Len(results) > 50
    /\ note # <<>> => note = << Len(results) >>

C18_Witness ==
  /\ pc = "rendered"
  /\ Len(results) = 51
  /\ Len(shown) = 50
  /\ shown[50].start = results[50].start
  /\ note = << 51 >>

\* The rule of C19: s is absorbed into the last entry iff it has the same
\* logo and max(0, s.start - (last.end + 1)) / fps <= mergeGapSec.
Absorbs(last, s) ==
  /\ s.logo = last.logo
  /\ DivLeq(IF s.start - (last.end + 1) > 0 THEN s.start - (last.end + 1) ELSE 0,
            fps, mergeGapSec)

\* The accumulator the rule gives after the first k segments of the sorted list.
RECURSIVE Accumulated(_)
Accumulated(k) ==
  IF k = 0 THEN <<>>
  ELSE LET acc == Accumulated(k - 1)
           s == rawSegments[k]
           last == acc[Len(acc)]
       IN  IF acc # <<>> /\ Absorbs(last, s)
           THEN [acc EXCEPT ![Len(acc)] =
                   Seg(last.logo, last.start, IF s.end > last.end THEN s.end ELSE last.end)]
           ELSE Append(acc, s)

\* C19: in the walk over the segments sorted by start, a segment is absorbed
\* into the last entry iff it has the same logo and
\* max(0, s.start - (last.end + 1)) / fps <= mergeGapSec; the entry's end then
\* becomes max(last.end, s.end) and its start stays; otherwise a new entry
\* equal to s is appended.
C19_MergeRule == pc = "merged" => merged = Accumulated(Len(rawSegments))

\* A gap exactly equal to mergeGapSec merges, and an overlapping segment merges.
C19_Witness ==
  /\ pc = "merged"
  /\ fps = 1
  /\ mergeGapSec = 1
  /\ rawSegments = << Seg(<< "b" >>, 0, 0), Seg(<< "b" >>, 2, 2), Seg(<< "b" >>, 2, 2) >>
  /\ merged = << Seg(<< "b" >>, 0, 2) >>

\* The logos of a list of segments, a logo repeated in adjacent entries taken once.
RECURSIVE LogoBlocks(_)
LogoBlocks(segs) ==
  IF Len(segs) <= 1 THEN [ i \in 1 .. Len(segs) |-> segs[i].logo ]
  ELSE LET front == LogoBlocks(SubSeq(segs, 1, Len(segs) - 1))
       IN  IF segs[Len(segs)].logo = segs[Len(segs) - 1].logo
           THEN front
           ELSE Append(front, segs[Len(segs)].logo)

\* C20: merging is not grouped by logo: runs of one logo that have a segment
\* of another logo between them in the order by start stay separate entries,
\* also when the gap between them is within mergeGapSec: the merged list has
\* the changes of logo of the sorted list.
C20_NotGroupedByLogo ==
  pc = "merged" => LogoBlocks(merged) = LogoBlocks(rawSegments)

C20_Witness ==
  /\ pc = "merged"
  /\ fps > 0
  /\ Len(merged) = 3
  /\ merged[1].logo = merged[3].logo
  /\ merged[2].logo # merged[1].logo
  /\ merged[3].start - (merged[1].end + 1) <= mergeGapSec * fps

\* A finished run, followed step by step, has what the three methods return.
RunMatchesMethods ==
  (pc = "done" /\ loop # <<>> /\ Len(logos) > 0) =>
    /\ found = findRawSegments(logos, coveragePerFrame, prominencePerFrame, timelineStats,
                               minCov, minProm)
    /\ merged = mergeSegments(found, fps, mergeGapSec)
    /\ results = mergeAndFilterSegments(found, fps, mergeGapSec, minDurationSec)

\* C21: every invocation terminates: a run that has started (Computing)
\* reaches Done, where the page shows one of "no logos match", "no segments
\* found" and the list of results; each loop goes once over its frames or
\* its segments.
C21_Terminates ==
  /\ (pc = "computing") ~> (pc = "done")
  /\ [](pc = "done" => out \in { "nomatch", "nosegments", "list" })
  /\ [](pc = "computing" =>
         /\ loop[1].logo <= Len(logos) + 1
         /\ loop[1].logo <= Len(logos) => loop[1].f <= maxLenOf(logos[loop[1].logo])
         /\ loop[1].seg <= Len(rawSegments) + 1)

C21_Witness ==
  /\ pc = "done"
  /\ loop # <<>>
  /\ out = "list"
  /\ Len(logos) = 2
  /\ Len(rawSegments) >= 2

C23_OrderedByStart ==
  pc = "merged" =>
    \A i \in 1 .. Len(results), j \in 1 .. Len(results) :
      i < j => results[i].start <= results[j].start

C23_Witness ==
  /\ pc = "merged"
  /\ Len(found) = 3
  /\ found[1].start > found[2].start
  /\ found[2].start > found[3].start
  /\ Len(results) = 3
  /\ results[1].start < results[3].start

\* C24: the raw segments findRawSegments emits for one logo are in ascending
\* order, lie within 0 <= start <= end <= maxLen - 1, are pairwise disjoint,
\* and two consecutive ones have at least one frame between them
\* (next.start >= previous.end + 2), a frame that does not qualify.
C24_RawSegmentsSeparated ==
  pc = "extracted" =>
    \A l \in Range(logos) :
      LET segs == FoundOf(l)
      IN  /\ \A i \in 1 .. Len(segs) :
               /\ 0 <= segs[i].start
               /\ segs[i].start <= segs[i].end
               /\ segs[i].end <= ScanLen(l) - 1
          /\ \A i \in 1 .. Len(segs) - 1 :
               /\ segs[i + 1].start >= segs[i].end + 2
               /\ \E f \in segs[i].end + 1 .. segs[i + 1].start - 1 : ~Qualifies(l, f)
          /\ \A i \in 1 .. Len(segs), j \in 1 .. Len(segs) :
               i < j => segs[i].end < segs[j].start

C24_Witness ==
  /\ pc = "extracted"
  /\ Len(found) = 2
  /\ found[1].start = 0
  /\ found[2].start = found[1].end + 2
  /\ found[2].end = ScanLen(ExtractLogo) - 1

\* Some segment of the list is of logo l and includes the frames from..to.
CoveredBy(segs, l, from, to) ==
  \E j \in DOMAIN segs :
    segs[j].logo = l /\ segs[j].start <= from /\ to <= segs[j].end

\* C25: merging loses no frame: the merged list (before the duration filter)
\* has, for every raw segment, a segment of the same logo that includes it, so
\* every qualifying frame of a selected logo is in a merged segment of that
\* logo; and the merged list has no more entries than the raw list.
C25_MergeLosesNoFrame ==
  (pc = "done" /\ Len(logos) > 0) =>
    /\ \A i \in DOMAIN found : CoveredBy(merged, found[i].logo, found[i].start, found[i].end)
    /\ \A l \in Range(logos) : \A f \in 0 .. ScanLen(l) - 1 :
         Qualifies(l, f) => CoveredBy(merged, l, f, f)
    /\ Len(merged) <= Len(found)

C25_Witness ==
  /\ pc = "done"
  /\ Len(logos) = 2
  /\ Len(found) = 3
  /\ Len(merged) = 2
  /\ \E l \in Range(logos) : \E f \in 0 .. ScanLen(l) - 1 :
       ~Qualifies(l, f) /\ CoveredBy(merged, l, f, f)

\* C26: for every segment of the final output, computed from the raw segments
\* of findRawSegments, the start frame and the end frame are qualifying frames
\* of the segment's logo, and every run of consecutive non-qualifying frames
\* inside the segment has a length L with L / fps <= mergeGapSec.
C26_GapsInsideWithinMergeGap ==
  pc \in { "merged", "rendered", "done" } =>
    \A i \in DOMAIN results :
      /\ Qualifies(results[i].logo, results[i].start)
      /\ Qualifies(results[i].logo, results[i].end)
      /\ \A a \in results[i].start .. results[i].end, b \in results[i].start .. results[i].end :
           (a <= b /\ \A f \in a .. b : ~Qualifies(results[i].logo, f))
             => DivLeq(b - a + 1, fps, mergeGapSec)

C26_Witness ==
  /\ pc = "merged"
  /\ mergeGapSec = 1
  /\ Len(found) = 3
  /\ Len(results) = 1
  /\ \E f \in results[1].start .. results[1].end :
       ~Qualifies(results[1].logo, f) /\ ~Qualifies(results[1].logo, f + 1)

\* The merged list of a run with the same series, thresholds and fps in which
\* the logo l alone is selected.
MergedAlone(l) ==
  mergeSegments(findRawSegments(<< l >>, coveragePerFrame, prominencePerFrame, timelineStats,
                                minCov, minProm),
                fps, mergeGapSec)

Reverse(s) == [ i \in 1 .. Len(s) |-> s[Len(s) + 1 - i] ]

\* What a run with the same series, thresholds and fps returns when the
\* selected logos are enumerated in the order ls.
ResultsInOrder(ls) ==
  mergeAndFilterSegments(findRawSegments(ls, coveragePerFrame, prominencePerFrame,
                                         timelineStats, minCov, minProm),
                         fps, mergeGapSec, minDurationSec)

\* No two raw segments of different logos start at the same frame.
NoEqualStarts ==
  \A i \in DOMAIN found, j \in DOMAIN found :
    found[i].logo # found[j].logo => found[i].start # found[j].start

\* C28 as stated: the set of segments returned does not depend on the order
\* in which the selected logos are enumerated, also when segments of
\* different logos have equal start frames.
C28_OrderIndependent ==
  (pc = "done" /\ Len(logos) > 0) =>
    Range(results) = Range(ResultsInOrder(Reverse(logos)))

\* C28 as amended: the set of segments returned does not depend on the order
\* in which the selected logos are enumerated, provided no two raw segments
\* of different logos have equal start frames.
C28_OrderIndependentNoTies ==
  (pc = "done" /\ Len(logos) > 0 /\ NoEqualStarts) =>
    Range(results) = Range(ResultsInOrder(Reverse(logos)))

C28_Witness ==
  /\ pc = "done"
  /\ Len(logos) = 2
  /\ NoEqualStarts
  /\ Len(found) = 3
  /\ Len(results) = 3
  /\ results[1].logo # results[2].logo
  /\ Range(results) = Range(ResultsInOrder(Reverse(logos)))

\* The positions in merged of the segments the duration filter keeps.
KeptPositions ==
  SelectSeq([ i \in 1 .. Len(merged) |-> i ],
            LAMBDA i : keepSegment(merged[i], fps, minDurationSec))

\* No dropped segment stood between two remaining segments of the same logo:
\* remaining segments of one logo that follow each other in the output
\* followed each other in the merged list.
NoDroppedBetween ==
  \A p \in 1 .. Len(KeptPositions) - 1 :
    merged[KeptPositions[p]].logo = merged[KeptPositions[p + 1]].logo
      => KeptPositions[p + 1] = KeptPositions[p] + 1

\* C29 as stated: the merge-and-filter step is idempotent: applied to its own
\* output with the same parameters it returns that output unchanged.
C29_MergeAndFilterIdempotent ==
  pc = "merged" =>
    mergeAndFilterSegments(results, fps, mergeGapSec, minDurationSec) = results

\* C29 as amended: applied to its own output with the same parameters, the
\* merge-and-filter step returns that output unchanged, provided no segment
\* the duration filter dropped stood between two remaining segments of the
\* same logo.
C29_IdempotentNoDroppedBetween ==
  (pc = "merged" /\ NoDroppedBetween) =>
    mergeAndFilterSegments(results, fps, mergeGapSec, minDurationSec) = results

C29_Witness ==
  /\ pc = "merged"
  /\ NoDroppedBetween
  /\ Len(merged) = 3
  /\ Len(results) = 2
  /\ results[1].logo # results[2].logo
  /\ mergeAndFilterSegments(results, fps, mergeGapSec, minDurationSec) = results

\* The query without the spaces before its first and after its last other
\* character.
Trimmed(q) ==
  LET other == { i \in DOMAIN q : q[i] # " " }
  IN  IF other = {} THEN <<>>
      ELSE SubSeq(q, CHOOSE i \in other : \A j \in other : i <= j,
                     CHOOSE i \in other : \A j \in other : j <= i)

\* Equal but for the case of the letters.
SameButCase(a, b) ==
  /\ Len(a) = Len(b)
  /\ \A i \in DOMAIN a : a[i] = b[i] \/ {a[i], b[i]} \in { {"A", "a"}, {"B", "b"} }

\* The logo's name contains the trimmed query, case not counted.
ContainsQuery(l, q) ==
  \E i \in 0 .. Len(l) - Len(Trimmed(q)) :
    SameButCase(SubSeq(l, i + 1, i + Len(Trimmed(q))), Trimmed(q))

\* C30: the selection is a case-insensitive substring match on the trimmed
\* query: a logo of logoStats is selected iff the trimmed query is empty or
\* the logo's name contains it, case not counted; an empty query selects
\* every logo of logoStats; every segment of the final output is of a
\* selected logo.
C30_Selection ==
  pc = "done" =>
    /\ \A l \in Range(logoStats) :
         l \in Range(logos) <=> (Trimmed(query) = <<>> \/ ContainsQuery(l, query))
    /\ Trimmed(query) = <<>> => logos = logoStats
    /\ \A i \in DOMAIN results : results[i].logo \in Range(logos)

C30_Witness ==
  /\ pc = "done"
  /\ query = << " ", "a" >>
  /\ Len(logoStats) = 2
  /\ logos = << << "A", "b" >> >>
  /\ Len(results) > 0

====
